---- MODULE Spec2Model ----
(***************************************************************************)
(* Batch resolution engine of the barcode nutrition API: main.batch_lookup *)
(* with its per-item coroutines (process_one), the upstream fetch          *)
(* (crud.fetch_from_off and its nested carbon estimate), the document      *)
(* store behind crud.get_product / crud.bulk_upsert_products, the TTL      *)
(* index of database.ensure_indexes and a concurrent single-item request   *)
(* (main.create_or_update_product).  SpecPair runs a second batch_lookup   *)
(* call beside the first, SpecName the name resolution of fetch_from_off   *)
(* on its own, SpecThrottleFair a burst of cache misses to its end.        *)
(*                                                                         *)
(* Scheduling: asyncio runs one coroutine at a time and switches only at   *)
(* an await, so every action below is the code between two awaits.  The    *)
(* MongoDB server applies each write of a bulk_write on its own; an upsert *)
(* that matched nothing inserts in a second server step (there is no       *)
(* unique index on barcode, only the TTL index).                           *)
(***************************************************************************)
EXTENDS Integers, Sequences, FiniteSets, TLC

\* ------------------------------------------------------------- bounds
\* longest batch of the full system
MaxBatch == 2
\* size of the burst of cache misses (more than the semaphore admits)
ThrottleBatch == 6
\* size of the batch that runs beside such a burst
PairBatch == 1
\* longest string of a name field
MaxNameLen == 2

\* ---------------------------------------------------- program constants
\* asyncio.Semaphore(5)
SemaphoreLimit == 5

Barcodes == {"b1", "b2"}

\* ver stands for the name/brand/category/ingredients/nutriments/allergens/
\* eco_score values of a record: OldVer in the documents stored before the
\* run, NewVer what OpenFoodFacts holds during it.
OldVer == 0
NewVer == 1

\* What the OpenFoodFacts GET can do: a 200 body with status 1, a 200 body
\* with another status, a non-200 answer, an httpx.RequestError (network,
\* timeout), a 200 answer whose body is not the expected JSON.
OffReplies == {"found", "status0", "non200", "network_error", "malformed_json"}

\* What the Carbon Interface POST can do: 201 with carbon_kg, a non-201
\* answer, an httpx.RequestError, a body that is not JSON (ValueError), a
\* JSON body whose "data" or "attributes" is null (AttributeError).
CarbonReplies == {"kg", "non201", "network_error", "not_json", "null_data"}

VARIABLES
    input,        \* batch.barcodes
    taskPc,       \* position of each process_one coroutine
    results,      \* the shared results list
    new_products, \* the shared new_products list
    fetched,      \* nonlocal counter
    cached,       \* nonlocal counter
    permits,      \* the semaphore's free permits
    batchPc,      \* position of batch_lookup itself
    bulkIdx,      \* next operation of the batch's bulk_write
    rereadIdx,    \* next index of the placeholder loop
    response,     \* the BatchResponse returned, or NoResponse
    store,        \* the collection: a set of documents
    nextId,       \* next ObjectId the server assigns
    other,        \* the concurrent POST /product request
    offCan,       \* the answers the OpenFoodFacts API gives in this run
    carbonCan,    \* the answers the Carbon Interface API gives in this run
    cacheSeen,    \* history: what each item's cache read found
    offReply,     \* history: what the upstream GET answered each item
    bulkCalls,    \* history: bulk_write calls of the batch
    bulkSent,     \* history: the documents of the batch's bulk_write call
    bulkWritten,  \* history: the operations of that call the server applied
    bulkFailedAt, \* history: the operation at which that call raised, or 0
    writeEarly,   \* history: a batch write happened while an item was unfinished
    storeMoved,   \* history: the store changed under the placeholder loop
    p,            \* the "product" object of an OpenFoodFacts answer (name fields)
    name,         \* the name fetch_from_off resolves from p
    input2,       \* a second batch_lookup call: its batch.barcodes
    taskPc2,      \* ... the positions of its process_one coroutines
    results2,     \* ... its results list
    new_products2, \* ... its new_products list
    fetched2,     \* ... its counters
    cached2,
    permits2,     \* ... the free permits of its semaphore
    batchPc2,     \* ... its own position
    bulkIdx2,     \* ... next operation of its bulk_write
    rereadIdx2,   \* ... next index of its placeholder loop
    response2     \* ... its BatchResponse, or NoResponse

vars == <<input, taskPc, results, new_products, fetched, cached, permits,
          batchPc, bulkIdx, rereadIdx, response, store, nextId, other,
          offCan, carbonCan, cacheSeen, offReply, bulkCalls, bulkSent,
          bulkWritten, bulkFailedAt, writeEarly, storeMoved, p, name,
          input2, taskPc2, results2, new_products2, fetched2, cached2,
          permits2, batchPc2, bulkIdx2, rereadIdx2, response2>>

\* what neither the store's clients nor its TTL monitor change
scenarioVars == <<input, offCan, carbonCan>>

\* the name resolution of one fetch
nameVars == <<p, name>>

\* the locals of the second batch_lookup call
batch2Vars == <<input2, taskPc2, results2, new_products2, fetched2, cached2,
                permits2, batchPc2, bulkIdx2, rereadIdx2, response2>>

\* the state of the batch request
batchVars == <<taskPc, results, new_products, fetched, cached, permits,
               batchPc, bulkIdx, rereadIdx, response, cacheSeen, offReply,
               bulkCalls, bulkSent, bulkWritten, bulkFailedAt, writeEarly>>

NoResponse == [status |-> 0]
NoDoc == [id |-> 0]
Idle == [pc |-> "idle"]
Returned == [pc |-> "returned"]

Items == 1..Len(input)

\* ------------------------------------------------------------- store
\* The documents collection.find_one({"barcode": b}) can return
\* (get_product, crud.py:162); None when there is none.
Matching(b) == {d \in store : d.barcode = b}

\* Time is kept per document: stale says that expireAfterSeconds have
\* passed since its fetched_at.  A write sets fetched_at to the utcnow() of
\* the fetch, so the written document starts with its window open.

\* A $set that leaves out the values that are None: the stored estimate
\* survives a fetch that has none.
SetFieldsMerged(d, data) ==
    [id |-> d.id, barcode |-> data.barcode, ver |-> data.ver,
     carbon |-> IF data.carbon = "none" THEN d.carbon ELSE data.carbon,
     stale |-> FALSE]

\* An UpdateOne({"barcode": ..}, {"$set": data}, upsert=True) that matched
\* document d: every field of data is set, the _id stays.
SetFields(d, data) ==
    [id |-> d.id, barcode |-> data.barcode, ver |-> data.ver,
     carbon |-> data.carbon, stale |-> FALSE]

\* The same operation when nothing matched: a new document with a new _id.
Inserted(data) ==
    [id |-> nextId, barcode |-> data.barcode, ver |-> data.ver,
     carbon |-> data.carbon, stale |-> FALSE]

\* The dict fetch_from_off returns (crud.py:107-128); carbon is
\* eco.carbon_footprint.
OffData(b, carbon) ==
    [barcode |-> b, ver |-> NewVer, carbon |-> carbon]

\* ------------------------------------------------------ result entries
\* A document as get_product returns it (the _id as a string).
DocEntry(d) ==
    [kind |-> "doc", barcode |-> d.barcode, id |-> d.id, ver |-> d.ver]

\* {"barcode": code, "error": "Not found in OpenFoodFacts"}
ErrorEntry(b) ==
    [kind |-> "error", barcode |-> b, id |-> 0, ver |-> 0]

\* {"barcode": code, "_placeholder": True}
PlaceholderEntry(b) ==
    [kind |-> "placeholder", barcode |-> b, id |-> 0, ver |-> 0]

\* results[idx] = doc when the re-read found nothing: None.
NoneEntry ==
    [kind |-> "none", barcode |-> "", id |-> 0, ver |-> 0]

\* A validation that lets every entry through.
ValidEntryLax(e) == TRUE

\* Whether pydantic accepts an entry as Union[ProductOut, ErrorOut]:
\* ProductOut needs name and _id, ErrorOut needs barcode and error.
ValidEntry(e) == e.kind \in {"doc", "error"}

\* ---------------------------------------------------------- upstream
\* crud.py:61-64: None unless the answer is a 200 with status 1; the GET
\* itself and resp.json() are not inside any try.
OffOutcome(reply) ==
    CASE reply = "found" -> "record"
      [] reply \in {"status0", "non200"} -> "none"
      [] reply \in {"network_error", "malformed_json"} -> "raise"

\* crud.py:32-50: non-201, httpx.RequestError and ValueError give None;
\* .get on a null "data" or "attributes" is an AttributeError, not caught.
CarbonOutcome(reply) ==
    CASE reply = "kg" -> "kg"
      [] reply \in {"non201", "network_error", "not_json"} -> "none"
      [] reply = "null_data" -> "raise"

\* ------------------------------------------------- name resolution
\* crud.py:66-74.  A string is a sequence of characters; Chars has one
\* whitespace and one other character.
Chars == {" ", "x"}

Strings == UNION {[1..k -> Chars] : k \in 0..MaxNameLen}

\* p.get(key): None when the key is missing or null, else the string.
Absent == [present |-> FALSE, text |-> <<>>]

Present(s) == [present |-> TRUE, text |-> s]

FieldValues == {Absent} \cup {Present(s) : s \in Strings}

\* the keys of the or-chain, in its order
NameOrder ==
    <<"product_name", "product_name_en", "generic_name", "generic_name_en",
      "brands">>

NameFields == {NameOrder[k] : k \in 1..Len(NameOrder)}

\* "Unknown Product"
UnknownProduct ==
    <<"U", "n", "k", "n", "o", "w", "n", " ", "P", "r", "o", "d", "u", "c",
      "t">>

\* Python's truth value of p.get(key): None and "" are false, every other
\* string is true, one of whitespace only included.
Truthy(v) == v.present /\ v.text # <<>>

RECURSIVE LStrip(_)
LStrip(s) ==
    IF s # <<>> /\ Head(s) = " " THEN LStrip(Tail(s)) ELSE s

RECURSIVE RStrip(_)
RStrip(s) ==
    IF s # <<>> /\ s[Len(s)] = " " THEN RStrip(SubSeq(s, 1, Len(s) - 1)) ELSE s

\* str.strip()
Strip(s) == RStrip(LStrip(s))

\* a or b or ... or "Unknown Product": the first operand that is true, the
\* literal when none is.
RECURSIVE OrChain(_, _)
OrChain(q, k) ==
    IF k > Len(NameOrder) THEN UnknownProduct
    ELSE IF Truthy(q[NameOrder[k]]) THEN q[NameOrder[k]].text
    ELSE OrChain(q, k + 1)

\* crud.py:67-74: the chain is evaluated first, .strip() applied to what
\* it chose.
ResolvedName(q) == Strip(OrChain(q, 1))

NoName == [resolved |-> FALSE, text |-> <<>>]

\* a second batch_lookup call with the barcodes in2, not started
SecondBatch(in2) ==
    /\ input2 = in2
    /\ taskPc2 = [i \in 1..Len(in2) |-> "cache_read"]
    /\ results2 = <<>>
    /\ new_products2 = <<>>
    /\ fetched2 = 0
    /\ cached2 = 0
    /\ permits2 = SemaphoreLimit
    /\ batchPc2 = "gather"
    /\ bulkIdx2 = 0
    /\ rereadIdx2 = 0
    /\ response2 = NoResponse

\* no name resolution is followed
NoNameInit ==
    /\ p = [f \in NameFields |-> Absent]
    /\ name = NoName
    /\ SecondBatch(<<>>)

\* ------------------------------------------------------------ Init
InitialDoc(b) ==
    [id |-> IF b = "b1" THEN 1 ELSE 2, barcode |-> b, ver |-> OldVer,
     carbon |-> "kg", stale |-> FALSE]

SeqsUpTo(S, n) == UNION {[1..k -> S] : k \in 0..n}

InitWith(inputs, stores, offs, carbons) ==
    /\ input \in inputs
    /\ store \in stores
    /\ offCan \in offs
    /\ carbonCan \in carbons
    /\ taskPc = [i \in 1..Len(input) |-> "cache_read"]
    /\ results = <<>>
    /\ new_products = <<>>
    /\ fetched = 0
    /\ cached = 0
    /\ permits = SemaphoreLimit
    /\ batchPc = "gather"
    /\ bulkIdx = 0
    /\ rereadIdx = 0
    /\ response = NoResponse
    /\ nextId = 3
    /\ other = Idle
    /\ cacheSeen = [i \in 1..Len(input) |-> "unread"]
    /\ offReply = [i \in 1..Len(input) |-> "not_called"]
    /\ bulkCalls = 0
    /\ bulkSent = <<>>
    /\ bulkWritten = {}
    /\ bulkFailedAt = 0
    /\ writeEarly = FALSE
    /\ storeMoved = FALSE

\* Any batch of up to MaxBatch barcodes, any of them stored already, both
\* upstream services free to answer each call in any way.
Init ==
    /\ InitWith(SeqsUpTo(Barcodes, MaxBatch),
                {{InitialDoc(b) : b \in S} : S \in SUBSET Barcodes},
                {OffReplies}, {CarbonReplies})
    /\ NoNameInit

\* ------------------------------------------------- batch_lookup: end
\* The 500 of the exception handler, main.py:54-57.
InternalError == [status |-> 500]

\* main.py:144-145
BatchResponse(res) ==
    [status |-> 200, requested |-> Len(input), fetched |-> fetched,
     cached |-> cached, results |-> res]

\* Building BatchResponse validates every entry of results.
Respond(res) ==
    IF \A k \in 1..Len(res) : ValidEntry(res[k])
    THEN /\ batchPc' = "done"
         /\ response' = BatchResponse(res)
    ELSE /\ batchPc' = "failed"
         /\ response' = InternalError

\* An exception leaves process_one: gather re-raises the first one in
\* batch_lookup, which is still awaiting it; the other tasks run on.
Propagate ==
    IF batchPc = "gather"
    THEN /\ batchPc' = "failed"
         /\ response' = InternalError
    ELSE UNCHANGED <<batchPc, response>>

\* ------------------------------------------------------- process_one
\* A cache read that takes every answer for None.
CacheDocsNone(b) == {}

\* main.py:113: doc = await crud.get_product(collection, code)
CacheDocs(b) == Matching(b)

\* A hit that forgets the counter.
CachedAfterHitLost == cached

\* main.py:115
CachedAfterHit == cached + 1

\* main.py:116
ResultsAfterHit(d) == Append(results, DocEntry(d))

\* A not-found that returns without an entry.
ResultsAfterNotFoundNone(b) == results

\* main.py:124
ResultsAfterNotFound(b) == Append(results, ErrorEntry(b))

\* A fetch that is not counted.
FetchedAfterFetchLost == fetched

\* main.py:127
FetchedAfterFetch == fetched + 1

\* A batch that keeps one record per barcode.
NewProductsAfterFetchOnce(data) ==
    IF \E k \in 1..Len(new_products) : new_products[k].barcode = data.barcode
    THEN new_products
    ELSE Append(new_products, data)

\* main.py:128
NewProductsAfterFetch(data) == Append(new_products, data)

\* main.py:129
ResultsAfterFetch(b) == Append(results, PlaceholderEntry(b))

\* A semaphore that never blocks.
CanAcquireAlways == TRUE

\* asyncio.Semaphore.acquire returns at once when a permit is free.
CanAcquire == permits > 0

\* A permit that is given back only when the block ends normally.
ReleasedOnRaiseLeaked == permits

\* main.py:120: async with semaphore releases in __aexit__ when an
\* exception leaves the block.
ReleasedOnRaise == permits + 1

\* main.py:113-117: the cache read answers with a document.
CacheHit(i) ==
    /\ taskPc[i] = "cache_read"
    /\ \E d \in CacheDocs(input[i]) :
          results' = ResultsAfterHit(d)
    /\ cached' = CachedAfterHit
    /\ taskPc' = [taskPc EXCEPT ![i] = "done"]
    /\ cacheSeen' = [cacheSeen EXCEPT ![i] = "hit"]
    /\ UNCHANGED <<scenarioVars, batch2Vars, nameVars, bulkWritten,
                   bulkFailedAt, new_products, fetched, permits, batchPc,
                   bulkIdx, rereadIdx, response, store, nextId, other,
                   offReply, bulkCalls, bulkSent, writeEarly, storeMoved>>

\* main.py:113-121: the cache read answers None; with a free permit
\* fetch_from_off is called at once, without one the task waits.
CacheMiss(i) ==
    /\ taskPc[i] = "cache_read"
    /\ CacheDocs(input[i]) = {}
    /\ cacheSeen' = [cacheSeen EXCEPT ![i] = "miss"]
    /\ IF CanAcquire
       THEN /\ permits' = permits - 1
            /\ taskPc' = [taskPc EXCEPT ![i] = "fetching"]
            /\ offReply' = [offReply EXCEPT ![i] = "pending"]
       ELSE /\ taskPc' = [taskPc EXCEPT ![i] = "acquire"]
            /\ UNCHANGED <<permits, offReply>>
    /\ UNCHANGED <<scenarioVars, batch2Vars, nameVars, bulkWritten,
                   bulkFailedAt, results, new_products, fetched, cached,
                   batchPc, bulkIdx, rereadIdx, response, store, nextId,
                   other, bulkCalls, bulkSent, writeEarly, storeMoved>>

\* main.py:120-121: a waiting task gets a released permit and calls
\* fetch_from_off.
Acquire(i) ==
    /\ taskPc[i] = "acquire"
    /\ CanAcquire
    /\ permits' = permits - 1
    /\ taskPc' = [taskPc EXCEPT ![i] = "fetching"]
    /\ offReply' = [offReply EXCEPT ![i] = "pending"]
    /\ UNCHANGED <<scenarioVars, batch2Vars, nameVars, bulkWritten,
                   bulkFailedAt, results, new_products, fetched, cached,
                   batchPc, bulkIdx, rereadIdx, response, store, nextId,
                   other, cacheSeen, bulkCalls, bulkSent, writeEarly,
                   storeMoved>>

\* crud.py:58-64 with main.py:120-125: the GET answers.  Leaving the
\* async with releases the permit, by return or by exception.
OffReturn(i, reply) ==
    /\ taskPc[i] = "fetching"
    /\ reply \in offCan
    /\ offReply' = [offReply EXCEPT ![i] = reply]
    /\ CASE OffOutcome(reply) = "record" ->
              /\ taskPc' = [taskPc EXCEPT ![i] = "carbon"]
              /\ UNCHANGED <<permits, results, batchPc, response>>
         [] OffOutcome(reply) = "none" ->
              /\ taskPc' = [taskPc EXCEPT ![i] = "done"]
              /\ permits' = permits + 1
              /\ results' = ResultsAfterNotFound(input[i])
              /\ UNCHANGED <<batchPc, response>>
         [] OffOutcome(reply) = "raise" ->
              /\ taskPc' = [taskPc EXCEPT ![i] = "raised"]
              /\ permits' = ReleasedOnRaise
              /\ Propagate
              /\ UNCHANGED results
    /\ UNCHANGED <<scenarioVars, batch2Vars, nameVars, bulkWritten,
                   bulkFailedAt, new_products, fetched, cached, bulkIdx,
                   rereadIdx, store, nextId, other, cacheSeen, bulkCalls,
                   bulkSent, writeEarly, storeMoved>>

\* crud.py:105-128 with main.py:120-129: the carbon POST answers, the
\* record is built, the permit released, the placeholder appended.
CarbonReturn(i, reply) ==
    /\ taskPc[i] = "carbon"
    /\ reply \in carbonCan
    /\ IF CarbonOutcome(reply) = "raise"
       THEN /\ taskPc' = [taskPc EXCEPT ![i] = "raised"]
            /\ permits' = ReleasedOnRaise
            /\ Propagate
            /\ UNCHANGED <<fetched, new_products, results>>
       ELSE /\ taskPc' = [taskPc EXCEPT ![i] = "done"]
            /\ permits' = permits + 1
            /\ fetched' = FetchedAfterFetch
            /\ new_products' =
                  NewProductsAfterFetch(OffData(input[i], CarbonOutcome(reply)))
            /\ results' = ResultsAfterFetch(input[i])
            /\ UNCHANGED <<batchPc, response>>
    /\ UNCHANGED <<scenarioVars, batch2Vars, nameVars, bulkWritten,
                   bulkFailedAt, cached, bulkIdx, rereadIdx, store, nextId,
                   other, cacheSeen, offReply, bulkCalls, bulkSent,
                   writeEarly, storeMoved>>

\* ------------------------------------------------------ batch_lookup
Unfinished == {i \in Items : taskPc[i] \notin {"done", "raised"}}

\* main.py:132: asyncio.gather returns once every process_one has returned.
AllJoined == \A i \in Items : taskPc[i] = "done"

\* The for loop of main.py:138-142: the next placeholder from index k on,
\* 0 when there is none.
NextPlaceholder(res, k) ==
    LET S == {j \in k..Len(res) : res[j].kind = "placeholder"}
    IN  IF S = {} THEN 0 ELSE CHOOSE j \in S : \A m \in S : j <= m

\* main.py:132-136: gather returns; with new products bulk_write is called,
\* without any the response is built at once.
GatherReturn ==
    /\ batchPc = "gather"
    /\ AllJoined
    /\ IF new_products # <<>>
       THEN /\ batchPc' = "bulk_match"
            /\ bulkIdx' = 1
            /\ bulkCalls' = bulkCalls + 1
            /\ bulkSent' = new_products
            /\ UNCHANGED response
       ELSE /\ Respond(results)
            /\ UNCHANGED <<bulkIdx, bulkCalls, bulkSent>>
    /\ UNCHANGED <<scenarioVars, batch2Vars, nameVars, bulkWritten,
                   bulkFailedAt, taskPc, results, new_products, fetched,
                   cached, permits, rereadIdx, store, nextId, other,
                   cacheSeen, offReply, writeEarly, storeMoved>>

\* The operation after bulkIdx, or the end of bulk_write and the start of
\* the placeholder loop (every placeholder is awaited on its own).
BulkAdvance ==
    IF bulkIdx < Len(bulkSent)
    THEN /\ bulkIdx' = bulkIdx + 1
         /\ batchPc' = "bulk_match"
         /\ UNCHANGED rereadIdx
    ELSE /\ bulkIdx' = 0
         /\ batchPc' = "reread"
         /\ rereadIdx' = NextPlaceholder(results, 1)

\* crud.py:150-155, one UpdateOne of the ordered bulk_write: the server
\* looks for a document with the barcode and updates it in place, or
\* finds none and goes on to insert.
BulkMatch ==
    /\ batchPc = "bulk_match"
    /\ LET data == bulkSent[bulkIdx]
       IN  IF Matching(data.barcode) # {}
           THEN /\ \E d \in Matching(data.barcode) :
                      store' = (store \ {d}) \cup {SetFields(d, data)}
                /\ bulkWritten' = bulkWritten \cup {bulkIdx}
                /\ writeEarly' = (writeEarly \/ Unfinished # {})
                /\ BulkAdvance
           ELSE /\ batchPc' = "bulk_insert"
                /\ UNCHANGED <<store, bulkWritten, writeEarly, bulkIdx,
                               rereadIdx>>
    /\ UNCHANGED <<scenarioVars, batch2Vars, nameVars, bulkFailedAt, taskPc,
                   results, new_products, fetched, cached, permits, response,
                   nextId, other, cacheSeen, offReply, bulkCalls, bulkSent,
                   storeMoved>>

\* The insert half of an upsert that matched nothing.
BulkInsert ==
    /\ batchPc = "bulk_insert"
    /\ store' = store \cup {Inserted(bulkSent[bulkIdx])}
    /\ nextId' = nextId + 1
    /\ bulkWritten' = bulkWritten \cup {bulkIdx}
    /\ writeEarly' = (writeEarly \/ Unfinished # {})
    /\ BulkAdvance
    /\ UNCHANGED <<scenarioVars, batch2Vars, nameVars, bulkFailedAt, taskPc,
                   results, new_products, fetched, cached, permits, response,
                   other, cacheSeen, offReply, bulkCalls, bulkSent,
                   storeMoved>>

\* A bulk_write whose exception is swallowed: the placeholder loop runs.
BulkFailIgnored ==
    /\ batchPc \in {"bulk_match", "bulk_insert"}
    /\ bulkFailedAt' = bulkIdx
    /\ bulkIdx' = 0
    /\ batchPc' = "reread"
    /\ rereadIdx' = NextPlaceholder(results, 1)
    /\ UNCHANGED <<scenarioVars, batch2Vars, nameVars, bulkWritten, taskPc,
                   results, new_products, fetched, cached, permits, response,
                   store, nextId, other, cacheSeen, offReply, bulkCalls,
                   bulkSent, writeEarly, storeMoved>>

\* bulk_write raises (a write error on one operation, the store
\* unreachable).  The call is ordered (pymongo's default, crud.py:155): the
\* server stops at the first operation that fails and applies none of the
\* later ones.  Nothing in batch_lookup catches the BulkWriteError, the
\* handler answers 500.
BulkFail ==
    /\ batchPc \in {"bulk_match", "bulk_insert"}
    /\ batchPc' = "failed"
    /\ response' = InternalError
    /\ bulkFailedAt' = bulkIdx
    /\ UNCHANGED <<scenarioVars, batch2Vars, nameVars, bulkWritten, taskPc,
                   results, new_products, fetched, cached, permits, bulkIdx,
                   rereadIdx, store, nextId, other, cacheSeen, offReply,
                   bulkCalls, bulkSent, writeEarly, storeMoved>>

\* The entry the re-read puts in a slot (main.py:141-142).
Reread(found) ==
    IF found = NoDoc THEN NoneEntry ELSE DocEntry(found)

\* What find_one can answer for barcode b.
FindOne(b) == IF Matching(b) = {} THEN {NoDoc} ELSE Matching(b)

\* main.py:138-145: one get_product of the placeholder loop; after the
\* last placeholder the response is built.
RereadOne ==
    /\ batchPc = "reread"
    /\ rereadIdx # 0
    /\ \E found \in FindOne(results[rereadIdx].barcode) :
          LET res == [results EXCEPT ![rereadIdx] = Reread(found)]
              nxt == NextPlaceholder(res, rereadIdx + 1)
          IN  /\ results' = res
              /\ rereadIdx' = nxt
              /\ IF nxt = 0 THEN Respond(res) ELSE UNCHANGED <<batchPc, response>>
    /\ UNCHANGED <<scenarioVars, batch2Vars, nameVars, bulkWritten,
                   bulkFailedAt, taskPc, new_products, fetched, cached,
                   permits, bulkIdx, store, nextId, other, cacheSeen,
                   offReply, bulkCalls, bulkSent, writeEarly, storeMoved>>

\* ------------------------------------- a concurrent POST /product
\* History: somebody else changes the store while the batch re-reads.
MovedBy == storeMoved \/ batchPc = "reread"

\* main.py:75-81: fetch_from_off found the product; bulk_upsert_products
\* is called with that one record.
OtherFetched(b) ==
    /\ other.pc = "idle"
    /\ other' = [pc |-> "match", data |-> OffData(b, "kg")]
    /\ UNCHANGED <<scenarioVars, batch2Vars, nameVars, batchVars, store,
                   nextId, storeMoved>>

\* The single UpdateOne of that request, matched.
OtherMatch ==
    /\ other.pc = "match"
    /\ IF Matching(other.data.barcode) # {}
       THEN /\ \E d \in Matching(other.data.barcode) :
                  store' = (store \ {d}) \cup {SetFields(d, other.data)}
            /\ other' = Returned
            /\ storeMoved' = MovedBy
       ELSE /\ other' = [other EXCEPT !.pc = "insert"]
            /\ UNCHANGED <<store, storeMoved>>
    /\ UNCHANGED <<scenarioVars, batch2Vars, nameVars, batchVars, nextId>>

\* ... and its insert when nothing matched.
OtherInsert ==
    /\ other.pc = "insert"
    /\ store' = store \cup {Inserted(other.data)}
    /\ nextId' = nextId + 1
    /\ other' = Returned
    /\ storeMoved' = MovedBy
    /\ UNCHANGED <<scenarioVars, batch2Vars, nameVars, batchVars>>

\* ------------------------------------------------------ TTL index
\* database.py:19-22: the server's TTL monitor may remove a document once
\* expireAfterSeconds have passed since its fetched_at.
Expired(d) == d.stale

Expire ==
    /\ \E d \in store :
          /\ Expired(d)
          /\ store' = store \ {d}
    /\ storeMoved' = MovedBy
    /\ UNCHANGED <<scenarioVars, batch2Vars, nameVars, batchVars, nextId,
                   other>>

\* Time passes: the retention window of a stored document elapses.
StoredAges ==
    /\ \E d \in store :
          /\ ~d.stale
          /\ store' = (store \ {d}) \cup {[d EXCEPT !.stale = TRUE]}
    /\ UNCHANGED <<scenarioVars, batch2Vars, nameVars, batchVars, nextId,
                   other, storeMoved>>

\* ------------------------------------------------------------ Next
TaskStep ==
    \E i \in Items :
        \/ CacheHit(i)
        \/ CacheMiss(i)
        \/ Acquire(i)
        \/ \E reply \in OffReplies : OffReturn(i, reply)
        \/ \E reply \in CarbonReplies : CarbonReturn(i, reply)

BatchStep ==
    \/ GatherReturn
    \/ BulkMatch
    \/ BulkInsert
    \/ RereadOne

Next ==
    \/ TaskStep
    \/ BatchStep
    \/ BulkFail
    \/ \E b \in Barcodes : OtherFetched(b)
    \/ OtherMatch
    \/ OtherInsert
    \/ Expire
    \/ StoredAges

Spec == Init /\ [][Next]_vars

\* ------------------------------------------- a burst of cache misses
\* A batch of ThrottleBatch barcodes none of which is in the store, run
\* alone.  Either each upstream service answers every call of the run
\* alike, or the product API mixes records, not-founds and network errors.
ThrottleInput == [k \in 1..ThrottleBatch |-> "b1"]

InitThrottle ==
    /\ \/ InitWith({ThrottleInput}, {{}, {InitialDoc("b2")}},
                   {{r} : r \in OffReplies}, {{r} : r \in CarbonReplies})
       \/ InitWith({ThrottleInput}, {{}},
                   {{"found", "status0", "network_error"}}, {{"kg"}})
    /\ NoNameInit

MissStep ==
    \E i \in Items :
        \/ CacheMiss(i)
        \/ Acquire(i)
        \/ \E reply \in OffReplies : OffReturn(i, reply)
        \/ \E reply \in CarbonReplies : CarbonReturn(i, reply)

NextThrottle ==
    \/ MissStep
    \/ BatchStep

SpecThrottle == InitThrottle /\ [][NextThrottle]_vars

\* The event loop runs every coroutine that is ready, and every store call
\* and upstream call is taken to answer: a step of some item that can be
\* taken is taken, and so is a step of batch_lookup.
\* The runs followed to their end: each service answering every call
\* alike, or the product API mixing answers with network errors.
InitThrottleFair ==
    /\ \/ InitWith({ThrottleInput}, {{}},
                   {{r} : r \in OffReplies}, {{r} : r \in CarbonReplies})
       \/ InitWith({ThrottleInput}, {{}},
                   {{"found", "network_error"}, {"status0", "network_error"}},
                   {{"kg"}})
    /\ NoNameInit

SpecThrottleFair ==
    /\ InitThrottleFair
    /\ [][NextThrottle]_vars
    /\ WF_vars(MissStep)
    /\ WF_vars(BatchStep)

\* -------------------------------------- a second batch_lookup call
\* Another POST /products/batch served by the same event loop while the
\* first is running: the same code on its own locals (main.py:102-108),
\* the semaphore among them, on the same collection and upstream services.
Items2 == 1..Len(input2)

\* main.py:144-145
BatchResponse2(res) ==
    [status |-> 200, requested |-> Len(input2), fetched |-> fetched2,
     cached |-> cached2, results |-> res]

Respond2(res) ==
    IF \A k \in 1..Len(res) : ValidEntry(res[k])
    THEN /\ batchPc2' = "done"
         /\ response2' = BatchResponse2(res)
    ELSE /\ batchPc2' = "failed"
         /\ response2' = InternalError

Propagate2 ==
    IF batchPc2 = "gather"
    THEN /\ batchPc2' = "failed"
         /\ response2' = InternalError
    ELSE UNCHANGED <<batchPc2, response2>>

\* One semaphore of the process for all batches: the fetches of the first
\* call count against the second.
CanAcquire2Shared ==
    permits2 - Cardinality({i \in Items :
                               taskPc[i] \in {"fetching", "carbon"}}) > 0

\* main.py:106, 120: the semaphore is created in the call and is its own.
CanAcquire2 == permits2 > 0

\* main.py:113-117
CacheHit2(i) ==
    /\ taskPc2[i] = "cache_read"
    /\ \E d \in CacheDocs(input2[i]) :
          results2' = Append(results2, DocEntry(d))
    /\ cached2' = cached2 + 1
    /\ taskPc2' = [taskPc2 EXCEPT ![i] = "done"]
    /\ UNCHANGED <<scenarioVars, nameVars, batchVars, store, nextId, other,
                   storeMoved, input2, new_products2, fetched2, permits2,
                   batchPc2, bulkIdx2, rereadIdx2, response2>>

\* main.py:113-121
CacheMiss2(i) ==
    /\ taskPc2[i] = "cache_read"
    /\ CacheDocs(input2[i]) = {}
    /\ IF CanAcquire2
       THEN /\ permits2' = permits2 - 1
            /\ taskPc2' = [taskPc2 EXCEPT ![i] = "fetching"]
       ELSE /\ taskPc2' = [taskPc2 EXCEPT ![i] = "acquire"]
            /\ UNCHANGED permits2
    /\ UNCHANGED <<scenarioVars, nameVars, batchVars, store, nextId, other,
                   storeMoved, input2, results2, new_products2, fetched2,
                   cached2, batchPc2, bulkIdx2, rereadIdx2, response2>>

\* main.py:120-121
Acquire2(i) ==
    /\ taskPc2[i] = "acquire"
    /\ CanAcquire2
    /\ permits2' = permits2 - 1
    /\ taskPc2' = [taskPc2 EXCEPT ![i] = "fetching"]
    /\ UNCHANGED <<scenarioVars, nameVars, batchVars, store, nextId, other,
                   storeMoved, input2, results2, new_products2, fetched2,
                   cached2, batchPc2, bulkIdx2, rereadIdx2, response2>>

\* crud.py:58-64 with main.py:120-125
OffReturn2(i, reply) ==
    /\ taskPc2[i] = "fetching"
    /\ reply \in offCan
    /\ CASE OffOutcome(reply) = "record" ->
              /\ taskPc2' = [taskPc2 EXCEPT ![i] = "carbon"]
              /\ UNCHANGED <<permits2, results2, batchPc2, response2>>
         [] OffOutcome(reply) = "none" ->
              /\ taskPc2' = [taskPc2 EXCEPT ![i] = "done"]
              /\ permits2' = permits2 + 1
              /\ results2' = Append(results2, ErrorEntry(input2[i]))
              /\ UNCHANGED <<batchPc2, response2>>
         [] OffOutcome(reply) = "raise" ->
              /\ taskPc2' = [taskPc2 EXCEPT ![i] = "raised"]
              /\ permits2' = permits2 + 1
              /\ Propagate2
              /\ UNCHANGED results2
    /\ UNCHANGED <<scenarioVars, nameVars, batchVars, store, nextId, other,
                   storeMoved, input2, new_products2, fetched2, cached2,
                   bulkIdx2, rereadIdx2>>

\* crud.py:105-128 with main.py:120-129
CarbonReturn2(i, reply) ==
    /\ taskPc2[i] = "carbon"
    /\ reply \in carbonCan
    /\ permits2' = permits2 + 1
    /\ IF CarbonOutcome(reply) = "raise"
       THEN /\ taskPc2' = [taskPc2 EXCEPT ![i] = "raised"]
            /\ Propagate2
            /\ UNCHANGED <<fetched2, new_products2, results2>>
       ELSE /\ taskPc2' = [taskPc2 EXCEPT ![i] = "done"]
            /\ fetched2' = fetched2 + 1
            /\ new_products2' =
                  Append(new_products2,
                         OffData(input2[i], CarbonOutcome(reply)))
            /\ results2' = Append(results2, PlaceholderEntry(input2[i]))
            /\ UNCHANGED <<batchPc2, response2>>
    /\ UNCHANGED <<scenarioVars, nameVars, batchVars, store, nextId, other,
                   storeMoved, input2, cached2, bulkIdx2, rereadIdx2>>

\* main.py:132
AllJoined2 == \A i \in Items2 : taskPc2[i] = "done"

\* main.py:132-136
GatherReturn2 ==
    /\ batchPc2 = "gather"
    /\ AllJoined2
    /\ IF new_products2 # <<>>
       THEN /\ batchPc2' = "bulk_match"
            /\ bulkIdx2' = 1
            /\ UNCHANGED response2
       ELSE /\ Respond2(results2)
            /\ UNCHANGED bulkIdx2
    /\ UNCHANGED <<scenarioVars, nameVars, batchVars, store, nextId, other,
                   storeMoved, input2, taskPc2, results2, new_products2,
                   fetched2, cached2, permits2, rereadIdx2>>

BulkAdvance2 ==
    IF bulkIdx2 < Len(new_products2)
    THEN /\ bulkIdx2' = bulkIdx2 + 1
         /\ batchPc2' = "bulk_match"
         /\ UNCHANGED rereadIdx2
    ELSE /\ bulkIdx2' = 0
         /\ batchPc2' = "reread"
         /\ rereadIdx2' = NextPlaceholder(results2, 1)

\* crud.py:150-155, one UpdateOne of the second call's bulk_write
BulkMatch2 ==
    /\ batchPc2 = "bulk_match"
    /\ LET data == new_products2[bulkIdx2]
       IN  IF Matching(data.barcode) # {}
           THEN /\ \E d \in Matching(data.barcode) :
                      store' = (store \ {d}) \cup {SetFields(d, data)}
                /\ storeMoved' = MovedBy
                /\ BulkAdvance2
           ELSE /\ batchPc2' = "bulk_insert"
                /\ UNCHANGED <<store, storeMoved, bulkIdx2, rereadIdx2>>
    /\ UNCHANGED <<scenarioVars, nameVars, batchVars, nextId, other, input2,
                   taskPc2, results2, new_products2, fetched2, cached2,
                   permits2, response2>>

BulkInsert2 ==
    /\ batchPc2 = "bulk_insert"
    /\ store' = store \cup {Inserted(new_products2[bulkIdx2])}
    /\ nextId' = nextId + 1
    /\ storeMoved' = MovedBy
    /\ BulkAdvance2
    /\ UNCHANGED <<scenarioVars, nameVars, batchVars, other, input2, taskPc2,
                   results2, new_products2, fetched2, cached2, permits2,
                   response2>>

\* main.py:138-145
RereadOne2 ==
    /\ batchPc2 = "reread"
    /\ rereadIdx2 # 0
    /\ \E found \in FindOne(results2[rereadIdx2].barcode) :
          LET res == [results2 EXCEPT ![rereadIdx2] = Reread(found)]
              nxt == NextPlaceholder(res, rereadIdx2 + 1)
          IN  /\ results2' = res
              /\ rereadIdx2' = nxt
              /\ IF nxt = 0 THEN Respond2(res)
                 ELSE UNCHANGED <<batchPc2, response2>>
    /\ UNCHANGED <<scenarioVars, nameVars, batchVars, store, nextId, other,
                   storeMoved, input2, taskPc2, new_products2, fetched2,
                   cached2, permits2, bulkIdx2>>

TaskStep2 ==
    \E i \in Items2 :
        \/ CacheHit2(i)
        \/ CacheMiss2(i)
        \/ Acquire2(i)
        \/ \E reply \in OffReplies : OffReturn2(i, reply)
        \/ \E reply \in CarbonReplies : CarbonReturn2(i, reply)

BatchStep2 ==
    \/ GatherReturn2
    \/ BulkMatch2
    \/ BulkInsert2
    \/ RereadOne2

\* A burst of ThrottleBatch cache misses and, beside it, a batch of
\* PairBatch misses of another barcode; each upstream service answers
\* every call of the run alike.
PairInput == [k \in 1..PairBatch |-> "b2"]

InitPair ==
    /\ InitWith({ThrottleInput}, {{}},
                {{"found"}, {"status0"}, {"network_error"}}, {{"kg"}})
    /\ p = [f \in NameFields |-> Absent]
    /\ name = NoName
    /\ SecondBatch(PairInput)

NextPair ==
    \/ MissStep
    \/ BatchStep
    \/ TaskStep2
    \/ BatchStep2

SpecPair == InitPair /\ [][NextPair]_vars

\* -------------------------------------- the name of a fetched record
\* Any product object: each name field missing or any string of up to
\* MaxNameLen characters.
InitName ==
    /\ InitWith({<<>>}, {{}}, {OffReplies}, {CarbonReplies})
    /\ p \in [NameFields -> FieldValues]
    /\ name = NoName
    /\ SecondBatch(<<>>)

\* crud.py:67-74
ResolveName ==
    /\ ~name.resolved
    /\ name' = [resolved |-> TRUE, text |-> ResolvedName(p)]
    /\ UNCHANGED <<scenarioVars, batch2Vars, batchVars, store, nextId, other,
                   storeMoved, p>>

NextName == ResolveName

SpecName == InitName /\ [][NextName]_vars

\* ============================================================ claims
InFlight == {i \in Items : taskPc[i] \in {"fetching", "carbon"}}

\* the answers of the product API that are a failed fetch
OffFailures == {"status0", "non200", "network_error", "malformed_json"}

SuccessSlots(res) == {k \in 1..Len(res) : res[k].kind = "doc"}

Occurrences(b) == {i \in Items : input[i] = b}

\* C1: the entry at position k of the returned results is the outcome of
\* the barcode at position k of the input.
C1_ResultsFollowInput ==
    response.status = 200 =>
        \A k \in 1..Len(response.results) :
            k \in Items /\ response.results[k].barcode = input[k]

\* C2: every item that ended has put exactly one entry into results, and
\* a returned batch has as many entries as the input has barcodes.
C2_OneEntryPerInput ==
    /\ Len(results) = Cardinality({i \in Items : taskPc[i] = "done"})
    /\ response.status = 200 => Len(response.results) = Len(input)

C2_Witness ==
    /\ response.status = 200
    /\ Len(input) = 2
    /\ response.fetched = 1
    /\ \E k \in 1..Len(response.results) : response.results[k].kind = "error"

\* C3: at most 5 upstream fetches (fetch_from_off with its carbon call)
\* are in flight at any time.
C3_AtMostFiveInFlight == Cardinality(InFlight) <= SemaphoreLimit

C3_Witness ==
    /\ Cardinality(InFlight) = SemaphoreLimit
    /\ \E i \in Items : taskPc[i] = "acquire"

\* C4: a failed fetch of an item, whatever the failure, ends the item with
\* an error descriptor and is never raised past the item.
C4_FailureStaysInItem ==
    \A i \in Items :
        offReply[i] \in OffFailures =>
            /\ taskPc[i] = "done"
            /\ \E k \in 1..Len(results) : results[k] = ErrorEntry(input[i])

\* C5: in a batch response requested is the length of the input and
\* fetched + cached is the number of product records among the results.
C5_MetadataCounts ==
    response.status = 200 =>
        /\ response.requested = Len(input)
        /\ response.fetched + response.cached =
               Cardinality(SuccessSlots(response.results))

C5_Witness ==
    /\ response.status = 200
    /\ storeMoved
    /\ response.fetched >= 1
    /\ Len(response.results) = 2

\* C6: cached counts the items resolved from the store with no fetch,
\* fetched the items whose fetch was called and returned a record; a
\* failed fetch counts in neither, and no increment is lost.
C6_CountersMatchOutcomes ==
    /\ cached = Cardinality({i \in Items : cacheSeen[i] = "hit"})
    /\ fetched = Cardinality({i \in Items :
                                 offReply[i] = "found" /\ taskPc[i] = "done"})
    /\ \A i \in Items : cacheSeen[i] = "hit" => offReply[i] = "not_called"

C6_Witness ==
    /\ Unfinished = {}
    /\ cached = 1
    /\ fetched = 1

\* C7: an item whose barcode is in the store when its cache read runs is
\* a cache hit, counted in cached, and no upstream fetch is ever called
\* for it.
C7_HitNeverFetches ==
    /\ [][\A i \in Items :
            (taskPc[i] = "cache_read" /\ taskPc'[i] # "cache_read"
                /\ Matching(input[i]) # {})
            => (taskPc'[i] = "done" /\ cacheSeen'[i] = "hit"
                /\ cached' = cached + 1)]_vars
    /\ [](\A i \in Items :
            cacheSeen[i] = "hit" =>
                taskPc[i] = "done" /\ offReply[i] = "not_called")

C7_Witness ==
    /\ response.status = 200
    /\ \E i \in Items : cacheSeen[i] = "hit"
    /\ \E i \in Items : cacheSeen[i] = "miss"

\* C8: the batch writes nothing while an item is unfinished, and once all
\* its fetches have ended it has issued exactly one bulk upsert, holding
\* every record fetched in the batch.
C8_OneBulkUpsertAfterAllFetches ==
    /\ ~writeEarly
    /\ bulkCalls <= 1
    /\ (Unfinished = {} /\ batchPc \in {"done", "failed"} /\ new_products # <<>>)
          => (bulkCalls = 1 /\ bulkSent = new_products)

\* C9: every slot of a batch response is a stored record with its
\* store-assigned identifier or an error descriptor, never a placeholder,
\* a raw fetched record or None, and the slots carry the input's barcodes.
C9_SlotsAreRecordsOrErrors ==
    response.status = 200 =>
        /\ \A k \in 1..Len(response.results) :
              LET e == response.results[k]
              IN  /\ e.kind \in {"doc", "error"}
                  /\ e.kind = "doc" => e.id \in 1..(nextId - 1)
        /\ \A b \in Barcodes :
              Cardinality({k \in 1..Len(response.results) :
                              response.results[k].barcode = b})
                  = Cardinality(Occurrences(b))

C9_Witness ==
    /\ response.status = 200
    /\ response.fetched = 2
    /\ input[1] = input[2]
    /\ \A k \in 1..2 : response.results[k].kind = "doc"

\* C10: the store holds at most one live record per barcode.
C10_OneLiveRecordPerBarcode ==
    \A b \in Barcodes : Cardinality(Matching(b)) <= 1

\* this step is an UpdateOne of the batch's bulk_write that matched a
\* stored document
BatchUpdates ==
    /\ batchPc = "bulk_match"
    /\ Matching(bulkSent[bulkIdx].barcode) # {}
    /\ (bulkIdx' # bulkIdx \/ batchPc' = "reread")

\* this step is the UpdateOne of POST /product that matched
OtherUpdates ==
    /\ other.pc = "match"
    /\ Matching(other.data.barcode) # {}
    /\ other'.pc = "returned"

\* after the step a document matched before it has its identifier still
\* and the fetched values in every field; no identifier was assigned
KeptIdNewFields(data) ==
    /\ {d.id : d \in store'} = {d.id : d \in store}
    /\ nextId' = nextId
    /\ \E d \in Matching(data.barcode) :
          \E e \in store' :
              /\ e.id = d.id
              /\ e.barcode = data.barcode
              /\ e.ver = data.ver
              /\ e.carbon = data.carbon
              /\ \A o \in store' : o.id = d.id => o = e

\* C11: an upsert of a barcode that has a stored record (by the batch's
\* bulk write or by the single-item request) keeps the record's identifier
\* and leaves in its fields the values of the new fetch only.
C11_UpsertKeepsIdReplacesFields ==
    [][/\ BatchUpdates => KeptIdNewFields(bulkSent[bulkIdx])
       /\ OtherUpdates => KeptIdNewFields(other.data)]_vars

C11_Witness ==
    /\ batchPc = "reread"
    /\ Len(bulkSent) = 2
    /\ bulkSent[1].barcode = bulkSent[2].barcode
    /\ bulkSent[1].carbon = "kg"
    /\ bulkSent[2].carbon = "none"
    /\ other = Idle
    /\ nextId = 4
    /\ \E d \in store : d.id = 3 /\ d.carbon = "none" /\ d.ver = NewVer

\* C12: when one record's write of a bulk upsert fails, every other record
\* of the submitted list is written all the same, whatever its position.
C12_OtherWritesStillApplied ==
    bulkFailedAt # 0 =>
        bulkWritten = (1..Len(bulkSent)) \ {bulkFailedAt}

\* the placeholders left in results
Placeholders(res) == {k \in 1..Len(res) : res[k].kind = "placeholder"}

\* C18: once the batch's bulk write has failed the batch answers with a
\* failure, writes nothing more and re-reads no placeholder: no response
\* with results is returned.
C18_BulkFailureAborts ==
    bulkFailedAt # 0 =>
        /\ batchPc = "failed"
        /\ response = InternalError
        /\ rereadIdx = 0
        /\ bulkWritten = 1..(bulkFailedAt - 1)
        /\ Cardinality(Placeholders(results)) = Len(new_products)

C18_Witness ==
    /\ bulkFailedAt = 2
    /\ bulkWritten = {1}
    /\ Cardinality(Placeholders(results)) = 2
    /\ response = InternalError

\* C13: whatever the carbon API answers, the product fetch it is part of
\* returns a record, with the estimate or with none: the item ends done
\* and its record is in new_products.
C13_CarbonNeverFailsFetch ==
    [][\A i \in Items :
          (taskPc[i] = "carbon" /\ taskPc'[i] # "carbon") =>
              /\ taskPc'[i] = "done"
              /\ Len(new_products') = Len(new_products) + 1
              /\ LET data == new_products'[Len(new_products')]
                 IN  /\ data.barcode = input[i]
                     /\ data.carbon \in {"kg", "none"}]_vars

\* the occurrences of b whose fetch returned a record
FetchedOccurrences(b) ==
    {i \in Occurrences(b) : offReply[i] = "found" /\ taskPc[i] = "done"}

\* the placeholder loop has not started
BeforeReread == bulkCalls = 0 \/ bulkIdx # 0

\* C14: every occurrence of a barcode is an item of its own: it makes its
\* own cache read, after a miss its own fetch, every fetch that returned a
\* record is counted in fetched and is one record of new_products and of
\* the bulk upsert, and every ended occurrence has its own result entry.
C14_NoIntraBatchDedup ==
    /\ \A i \in Items :
          /\ taskPc[i] # "cache_read" => cacheSeen[i] # "unread"
          /\ (cacheSeen[i] = "miss" /\ taskPc[i] # "acquire")
                => offReply[i] # "not_called"
    /\ \A b \in Barcodes :
          /\ Cardinality({k \in 1..Len(new_products) :
                             new_products[k].barcode = b})
                = Cardinality(FetchedOccurrences(b))
          /\ BeforeReread =>
                Cardinality({k \in 1..Len(results) : results[k].barcode = b})
                   = Cardinality({i \in Occurrences(b) : taskPc[i] = "done"})
    /\ fetched = Len(new_products)
    /\ bulkCalls = 1 => bulkSent = new_products

C14_Witness ==
    /\ Len(input) = 2
    /\ input[1] = input[2]
    /\ \A i \in Items : cacheSeen[i] = "miss" /\ offReply[i] = "found"
    /\ fetched = 2
    /\ batchPc = "bulk_match"
    /\ bulkIdx = 2
    /\ Len(bulkSent) = 2
    /\ Len(results) = 2

\* the value of a name field after trimming, empty when the field is missing
Trimmed(v) == IF v.present THEN Strip(v.text) ELSE <<>>

\* the first field, in priority order, that is non-empty after trimming
FirstNonEmptyTrimmed(q) ==
    LET S == {k \in 1..Len(NameOrder) : Trimmed(q[NameOrder[k]]) # <<>>}
    IN  IF S = {} THEN UnknownProduct
        ELSE Trimmed(q[NameOrder[CHOOSE k \in S : \A m \in S : k <= m]])

\* C16: the resolved name is never empty: it is the first name field that
\* is non-empty after trimming, "Unknown Product" when there is none.
C16_NameFirstNonEmptyTrimmed ==
    name.resolved =>
        /\ name.text # <<>>
        /\ name.text = FirstNonEmptyTrimmed(p)

\* every stored record of b is past its retention window
AllExpired(b) == Matching(b) # {} /\ \A d \in Matching(b) : Expired(d)

\* C17: a cache read of a barcode whose stored record is past the
\* retention window finds nothing: the item is a miss and goes on to a
\* fresh fetch, it is not served the stale record.
C17_ExpiredReadIsMiss ==
    [][\A i \in Items :
          (taskPc[i] = "cache_read" /\ taskPc'[i] # "cache_read"
              /\ AllExpired(input[i]))
          => (cacheSeen'[i] = "miss"
              /\ taskPc'[i] \in {"acquire", "fetching"})]_vars

\* C19: the result list and the fetched/cached counters are written only
\* by the coordinator once all tasks have joined, never by a task while
\* the tasks run.
C19_OnlyCoordinatorAggregates ==
    [][(results' # results \/ fetched' # fetched \/ cached' # cached)
          => (AllJoined /\ batchPc # "gather")]_vars

\* C20: the permits held are the fetches in flight, between 0 and 5;
\* every item ends, every item that missed the cache having got its permit
\* and its upstream answer, with all permits given back; and the batch
\* itself ends.
C20_ItemsEndPermitsReturn ==
    /\ [](/\ permits \in 0..SemaphoreLimit
          /\ permits = SemaphoreLimit - Cardinality(InFlight))
    /\ <>[](/\ Unfinished = {}
            /\ permits = SemaphoreLimit
            /\ \A i \in Items :
                  cacheSeen[i] = "miss" =>
                      offReply[i] \notin {"not_called", "pending"})
    /\ <>(batchPc \in {"done", "failed"})

C20_Witness ==
    /\ \E i \in Items : taskPc[i] = "acquire"
    /\ \E i \in Items : taskPc[i] = "raised"
    /\ \E i \in Items : taskPc[i] = "done" /\ offReply[i] = "found"
    /\ permits = 2

InFlight2 == {i \in Items2 : taskPc2[i] \in {"fetching", "carbon"}}

\* C15: each of two concurrent batches has its own limiter: the permits
\* of a batch are 5 less its own fetches in flight, whatever the other
\* batch holds, and an item waits only when 5 fetches of its own batch
\* are in flight.
C15_LimiterPerBatch ==
    /\ [](/\ permits = SemaphoreLimit - Cardinality(InFlight)
          /\ permits2 = SemaphoreLimit - Cardinality(InFlight2))
    /\ [][/\ \A i \in Items :
                 (taskPc[i] # "acquire" /\ taskPc'[i] = "acquire")
                     => Cardinality(InFlight) = SemaphoreLimit
          /\ \A j \in Items2 :
                 (taskPc2[j] # "acquire" /\ taskPc2'[j] = "acquire")
                     => Cardinality(InFlight2) = SemaphoreLimit]_vars

C15_Witness ==
    /\ Cardinality(InFlight) = SemaphoreLimit
    /\ \E i \in Items : taskPc[i] = "acquire"
    /\ Cardinality(InFlight2) = PairBatch
    /\ permits2 = SemaphoreLimit - PairBatch

====
